---- MODULE Spec2Model ----
(***************************************************************************)
(* State-machine model of src/app.py, the Streamlit reading-feedback page. *)
(*                                                                         *)
(* Streamlit executes the whole script once per user interaction (a        *)
(* selector change, a text edit, a button click).  One action below is one *)
(* such execution, from line 1 to the end of the script or to the uncaught *)
(* exception that stops it.                                                *)
(*                                                                         *)
(* Text is a sequence of lexemes: a white-space character, a punctuation   *)
(* character, a decimal digit, or a word (a run of other characters that   *)
(* no conversion of the program looks inside).                             *)
(***************************************************************************)
EXTENDS Integers, Sequences, FiniteSets, TLC

VARIABLES
    level,        \* value of the level radio                    (app.py:75)
    model_name,   \* value of the model selectbox                (app.py:69)
    user_input,   \* value of the reflection text area           (app.py:94)
    passage,      \* st.session_state.passage                    (app.py:80-85)
    passageFor,   \* history: the (level, model_name) arguments of the
                  \* generate_passage call that produced passage, <<>> if none
    cache,        \* memo table of st.cache_data on generate_passage (app.py:48)
    csv,          \* rows of feedback_log.csv, each a tuple of five cell texts
    fbButton,     \* the feedback button as the last execution rendered it
    event,        \* what the last execution of the script did
    history,      \* history: for each row appended to the log, the passage and
                  \* the reflection text at the time of the append
    firstResult,  \* history: for each (level, model_name), the passage that the
                  \* first successful generation for it stored
    runs          \* number of executions of the script since the page opened

vars == <<level, model_name, user_input, passage, passageFor, cache, csv,
          fbButton, event, history, firstResult, runs>>

(***************************************************************************)
(* Bounds of the model.                                                    *)
(***************************************************************************)
MaxRuns == 5

(***************************************************************************)
(* Program constants.                                                      *)
(***************************************************************************)
AVAILABLE_MODELS == <<"gemini-2.5-pro", "gemini-2.5-flash">>

\* The Japanese strings of the source are written in ASCII: the level names of
\* app.py:32-34 as "shokyu", "chukyu", "jokyu"; the three field names of
\* app.py:41 as "yokatta_ten", "kaizen_ten", "score"; the fallback texts of
\* app.py:61 as "kaiseki_shippai", "keishiki_wo_kakunin"; the CSV column names of
\* app.py:101 as "hizuke", "level", "model", "kanso", "score".  Each instruction
\* text is one word, since nothing in the program looks inside it.
LEVEL_PROMPT ==
    [l \in {"shokyu", "chukyu", "jokyu"} |->
        CASE l = "shokyu" -> <<"story-for-upper-primary-5000-chars">>
          [] l = "chukyu" -> <<"adventure-for-junior-high-5000-chars">>
          [] l = "jokyu"  -> <<"literary-short-story-over-5000-chars">>]

Levels == DOMAIN LEVEL_PROMPT
Models == {AVAILABLE_MODELS[i] : i \in DOMAIN AVAILABLE_MODELS}

Quote == "\""

FB_TEMPLATE(text) ==
    <<"\n", "you-are-a-tutor-of-book-reports", "\n",
      "evaluate-and-output-only-this-JSON", "\n", "\n",
      "{", Quote, "yokatta_ten", Quote, ":", " ", Quote, "~", Quote, ",", " ",
      Quote, "kaizen_ten", Quote, ":", " ", Quote, "~", Quote, ",", " ",
      Quote, "score", Quote, ":", " ", "8", "0", "}", "\n", "\n",
      "kansobun:", "\n">> \o text \o <<"\n">>

CSV_COLUMNS == <<"hizuke", "level", "model", "kanso", "score">>
CSV_COLUMNS_LINE == [c \in DOMAIN CSV_COLUMNS |-> <<CSV_COLUMNS[c]>>]

(***************************************************************************)
(* str.strip(): drop the leading and the trailing white space.             *)
(***************************************************************************)
Whitespace == {" ", "\n"}

RECURSIVE LStrip(_)
LStrip(s) ==
    IF s # <<>> /\ Head(s) \in Whitespace THEN LStrip(Tail(s)) ELSE s

RECURSIVE RStrip(_)
RStrip(s) ==
    IF s # <<>> /\ s[Len(s)] \in Whitespace
    THEN RStrip(SubSeq(s, 1, Len(s) - 1))
    ELSE s

Strip(s) == RStrip(LStrip(s))

(***************************************************************************)
(* Python values.  A tag tells the types apart, as type() does.            *)
(***************************************************************************)
PyStr(s)   == [t |-> "str", s |-> s]
PyInt(n)   == [t |-> "int", n |-> n]
PyFloat(n) == [t |-> "float", n |-> n]   \* the float n.0
PyBool(b)  == [t |-> "bool", b |-> b]
PyNone     == [t |-> "None"]
PyList(xs) == [t |-> "list", items |-> xs]
\* a dict: its keys in insertion order, and the function from key to value
PyDict(keys, d) == [t |-> "dict", keys |-> keys, d |-> d]
EmptyDict == PyDict(<<>>, <<>>)
\* d[k] = v: a new key goes last, a key already present keeps its place
DictSet(dict, k, v) ==
    PyDict(IF k \in DOMAIN dict.d THEN dict.keys ELSE Append(dict.keys, k),
           (k :> v) @@ dict.d)
\* pandas' missing value (float nan)
NaN == [t |-> "nan"]

(***************************************************************************)
(* json.loads (app.py:59) on the lexemes of the response: objects, arrays, *)
(* strings without escapes, integers and the literals null, true, false.   *)
(* A result is [ok, val, rest]; ok = FALSE is json.JSONDecodeError.        *)
(***************************************************************************)
DigitVal == ("0" :> 0) @@ ("1" :> 1) @@ ("2" :> 2) @@ ("3" :> 3) @@ ("4" :> 4)
            @@ ("5" :> 5) @@ ("6" :> 6) @@ ("7" :> 7) @@ ("8" :> 8) @@ ("9" :> 9)
Digits == DOMAIN DigitVal

JsonFail == [ok |-> FALSE]
JsonOk(v, rest) == [ok |-> TRUE, val |-> v, rest |-> rest]

RECURSIVE DigitRun(_, _)
DigitRun(s, acc) ==
    IF s # <<>> /\ Head(s) \in Digits
    THEN DigitRun(Tail(s), 10 * acc + DigitVal[Head(s)])
    ELSE [n |-> acc, rest |-> s]

\* NUMBER_RE of json.scanner, integer part: -?(0|[1-9][0-9]*)
JsonNumber(s) ==
    LET neg == s # <<>> /\ Head(s) = "-"
        u   == IF neg THEN Tail(s) ELSE s
    IN  IF u = <<>> \/ Head(u) \notin Digits THEN JsonFail
        ELSE LET r == IF Head(u) = "0" THEN [n |-> 0, rest |-> Tail(u)]
                      ELSE DigitRun(u, 0)
             IN  JsonOk(PyInt(IF neg THEN 0 - r.n ELSE r.n), r.rest)

RECURSIVE IndexOf(_, _, _)
IndexOf(s, c, i) ==
    IF i > Len(s) THEN 0
    ELSE IF s[i] = c THEN i
    ELSE IndexOf(s, c, i + 1)

\* s starts at the opening quote; a raw line break inside a string is an error
JsonString(s) ==
    LET close == IndexOf(s, Quote, 2)
    IN  IF close = 0 THEN JsonFail
        ELSE LET body == SubSeq(s, 2, close - 1)
             IN  IF \E i \in DOMAIN body : body[i] = "\n" THEN JsonFail
                 ELSE JsonOk(PyStr(body), SubSeq(s, close + 1, Len(s)))

RECURSIVE JsonValue(_), JsonMembers(_, _), JsonElements(_, _)

\* s starts at the opening quote of a key; d holds the members read so far
JsonMembers(s, d) ==
    LET k == JsonString(s)
    IN  IF ~k.ok THEN JsonFail
        ELSE
        LET s1 == LStrip(k.rest)
        IN  IF s1 = <<>> \/ Head(s1) # ":" THEN JsonFail
            ELSE
            LET v == JsonValue(LStrip(Tail(s1)))
            IN  IF ~v.ok THEN JsonFail
                ELSE
                LET s2 == LStrip(v.rest)
                    d2 == DictSet(d, k.val.s, v.val)
                IN  IF s2 = <<>> THEN JsonFail
                    ELSE IF Head(s2) = "}" THEN JsonOk(d2, Tail(s2))
                    ELSE IF Head(s2) = ","
                    THEN LET s3 == LStrip(Tail(s2))
                         IN  IF s3 # <<>> /\ Head(s3) = Quote
                             THEN JsonMembers(s3, d2)
                             ELSE JsonFail
                    ELSE JsonFail

\* s starts at an element; xs holds the elements read so far
JsonElements(s, xs) ==
    LET v == JsonValue(s)
    IN  IF ~v.ok THEN JsonFail
        ELSE
        LET s1 == LStrip(v.rest)
            ys == Append(xs, v.val)
        IN  IF s1 = <<>> THEN JsonFail
            ELSE IF Head(s1) = "]" THEN JsonOk(PyList(ys), Tail(s1))
            ELSE IF Head(s1) = "," THEN JsonElements(LStrip(Tail(s1)), ys)
            ELSE JsonFail

JsonValue(s) ==
    IF s = <<>> THEN JsonFail
    ELSE CASE Head(s) = Quote -> JsonString(s)
           [] Head(s) = "{" ->
                LET s1 == LStrip(Tail(s))
                IN  IF s1 = <<>> THEN JsonFail
                    ELSE IF Head(s1) = "}" THEN JsonOk(EmptyDict, Tail(s1))
                    ELSE IF Head(s1) = Quote THEN JsonMembers(s1, EmptyDict)
                    ELSE JsonFail
           [] Head(s) = "[" ->
                LET s1 == LStrip(Tail(s))
                IN  IF s1 = <<>> THEN JsonFail
                    ELSE IF Head(s1) = "]" THEN JsonOk(PyList(<<>>), Tail(s1))
                    ELSE JsonElements(s1, <<>>)
           [] Head(s) = "null"  -> JsonOk(PyNone, Tail(s))
           [] Head(s) = "true"  -> JsonOk(PyBool(TRUE), Tail(s))
           [] Head(s) = "false" -> JsonOk(PyBool(FALSE), Tail(s))
           [] Head(s) = "-" \/ Head(s) \in Digits -> JsonNumber(s)
           [] OTHER -> JsonFail

\* json.loads: one value, white space around it, nothing after it
json_loads(s) ==
    LET r == JsonValue(LStrip(s))
    IN  IF r.ok /\ LStrip(r.rest) = <<>> THEN [ok |-> TRUE, val |-> r.val]
        ELSE [ok |-> FALSE]

(***************************************************************************)
(* get_feedback (app.py:54-61), after the model has answered raw.          *)
(***************************************************************************)
FALLBACK ==
    DictSet(DictSet(DictSet(EmptyDict,
        <<"yokatta_ten">>, PyStr(<<"kaiseki_shippai">>)),
        <<"kaizen_ten">>, PyStr(<<"keishiki_wo_kakunin">>)),
        <<"score">>, PyInt(0))

\* variant: a reply that is not JSON yields an empty dict
get_feedback_no_fallback(raw) ==
    LET resp == Strip(raw)
        r    == json_loads(resp)
    IN  IF r.ok THEN r.val ELSE EmptyDict

\* variant: the fallback record also stands in for a reply that is JSON but
\* is no object with the three fields
get_feedback_lenient(raw) ==
    LET resp == Strip(raw)
        r    == json_loads(resp)
        want == {<<"yokatta_ten">>, <<"kaizen_ten">>, <<"score">>}
    IN  IF r.ok /\ r.val.t = "dict" /\ want \subseteq DOMAIN r.val.d
        THEN r.val
        ELSE FALLBACK

get_feedback(raw) ==
    LET resp == Strip(raw)
        r    == json_loads(resp)
    IN  IF r.ok THEN r.val ELSE FALLBACK

(***************************************************************************)
(* fb[key] (app.py:109-111, 118): the value, or the exception raised.      *)
(***************************************************************************)
Subscript(fb, key) ==
    IF fb.t # "dict" THEN [error |-> "TypeError"]
    ELSE IF key \notin DOMAIN fb.d THEN [error |-> "KeyError"]
    ELSE [error |-> "none", val |-> fb.d[key]]

\* the first exception of lines 109, 110, 111 in that order, or "none"
DisplayError(fb) ==
    LET e1 == Subscript(fb, <<"score">>).error
        e2 == Subscript(fb, <<"yokatta_ten">>).error
        e3 == Subscript(fb, <<"kaizen_ten">>).error
    IN  IF e1 # "none" THEN e1 ELSE IF e2 # "none" THEN e2 ELSE e3

(***************************************************************************)
(* Text of a Python value: str() for a cell of the table, repr() inside a  *)
(* list or a dict.                                                         *)
(***************************************************************************)
RECURSIVE IntDigits(_)
IntDigits(n) ==     \* decimal digits of n >= 0
    LET last == CHOOSE c \in Digits : DigitVal[c] = n % 10
    IN  IF n < 10 THEN <<last>> ELSE Append(IntDigits(n \div 10), last)

FormatInt(n) == IF n < 0 THEN <<"-">> \o IntDigits(0 - n) ELSE IntDigits(n)

RECURSIVE PyRepr(_), ReprItems(_), ReprMembers(_, _)
PyRepr(v) ==
    CASE v.t = "str"  -> <<"'">> \o v.s \o <<"'">>
      [] v.t = "int"  -> FormatInt(v.n)
      [] v.t = "float" -> FormatInt(v.n) \o <<".", "0">>
      [] v.t = "bool" -> IF v.b THEN <<"True">> ELSE <<"False">>
      [] v.t = "None" -> <<"None">>
      [] v.t = "nan"  -> <<"nan">>
      [] v.t = "list" -> <<"[">> \o ReprItems(v.items) \o <<"]">>
      [] v.t = "dict" -> <<"{">> \o ReprMembers(v.keys, v.d) \o <<"}">>

ReprItems(xs) ==
    IF xs = <<>> THEN <<>>
    ELSE IF Len(xs) = 1 THEN PyRepr(xs[1])
    ELSE PyRepr(xs[1]) \o <<",", " ">> \o ReprItems(Tail(xs))

ReprMembers(keys, d) ==
    IF keys = <<>> THEN <<>>
    ELSE LET one == PyRepr(PyStr(keys[1])) \o <<":", " ">> \o PyRepr(d[keys[1]])
         IN  IF Len(keys) = 1 THEN one
             ELSE one \o <<",", " ">> \o ReprMembers(Tail(keys), d)

\* DataFrame.to_csv of one cell: a missing value is written as the empty
\* field (na_rep = ""), every other value as str(value)
FormatCell(v) ==
    CASE v.t = "str" -> v.s
      [] v.t \in {"None", "nan"} -> <<>>
      [] OTHER -> PyRepr(v)

(***************************************************************************)
(* datetime.date.isoformat (app.py:114): YYYY-MM-DD, zero padded.          *)
(***************************************************************************)
RECURSIVE ZeroPad(_, _)
ZeroPad(s, width) == IF Len(s) >= width THEN s ELSE ZeroPad(<<"0">> \o s, width)

isoformat(date) ==
    ZeroPad(IntDigits(date.year), 4) \o <<"-">> \o ZeroPad(IntDigits(date.month), 2)
        \o <<"-">> \o ZeroPad(IntDigits(date.day), 2)

(***************************************************************************)
(* The log file (app.py:97-101, 120).  csv is the sequence of the lines of *)
(* feedback_log.csv, each a tuple of cell texts, the header first; <<>> is *)
(* "no such file".  The quoting of the writer and the unquoting of the     *)
(* reader are inverse to each other and are not modelled.                  *)
(***************************************************************************)
\* pandas.read_csv: the texts read as a missing value (default na_values)
NA_VALUES ==
    { <<>>, <<"#N/A">>, <<"#N/A", " ", "N/A">>, <<"#NA">>, <<"-1.#IND">>,
      <<"-1.#QNAN">>, <<"-NaN">>, <<"-nan">>, <<"1.#IND">>, <<"1.#QNAN">>,
      <<"<NA>">>, <<"N/A">>, <<"NA">>, <<"NULL">>, <<"NaN">>, <<"None">>,
      <<"n/a">>, <<"nan">>, <<"null">> }

TRUE_VALUES  == { <<"True">>, <<"TRUE">>, <<"true">> }
FALSE_VALUES == { <<"False">>, <<"FALSE">>, <<"false">> }

\* the parser's integer conversion: white space, a sign, digits, white space
CsvInt(cell) ==
    LET u    == Strip(cell)
        sign == u # <<>> /\ Head(u) \in {"-", "+"}
        ds   == IF sign THEN Tail(u) ELSE u
    IN  IF ds # <<>> /\ \A i \in DOMAIN ds : ds[i] \in Digits
        THEN [ok |-> TRUE,
              n  |-> IF Head(u) = "-" THEN 0 - DigitRun(ds, 0).n
                     ELSE DigitRun(ds, 0).n]
        ELSE [ok |-> FALSE]

\* the parser's float conversion, for the decimals that occur here: an
\* integer, or an integer followed by "." and zeros
CsvFloat(cell) ==
    LET u   == Strip(cell)
        dot == IndexOf(u, ".", 1)
        frac == SubSeq(u, dot + 1, Len(u))
    IN  IF dot = 0 THEN CsvInt(u)
        ELSE IF \A i \in DOMAIN frac : frac[i] = "0"
        THEN CsvInt(SubSeq(u, 1, dot - 1))
        ELSE [ok |-> FALSE]

\* the values of one column: int64 if every cell is an integer, float64 if
\* every present cell is a number, booleans if every present cell is one,
\* else the texts; a missing cell is NaN
InferColumn(cells) ==
    LET present == {i \in DOMAIN cells : cells[i] \notin NA_VALUES}
    IN  IF \A i \in DOMAIN cells : i \in present /\ CsvInt(cells[i]).ok
        THEN [i \in DOMAIN cells |-> PyInt(CsvInt(cells[i]).n)]
        ELSE IF \A i \in present : CsvFloat(cells[i]).ok
        THEN [i \in DOMAIN cells |->
                 IF i \in present THEN PyFloat(CsvFloat(cells[i]).n) ELSE NaN]
        ELSE IF \A i \in present : cells[i] \in TRUE_VALUES \cup FALSE_VALUES
        THEN [i \in DOMAIN cells |->
                 IF i \in present THEN PyBool(cells[i] \in TRUE_VALUES) ELSE NaN]
        ELSE [i \in DOMAIN cells |->
                 IF i \in present THEN PyStr(cells[i]) ELSE NaN]

\* app.py:98-101: the rows of df, each a tuple of five Python values
LoadLog(file) ==
    IF file = <<>> THEN <<>>
    ELSE LET body == Tail(file)
             col(c) == InferColumn([i \in DOMAIN body |-> body[i][c]])
         IN  [i \in DOMAIN body |-> [c \in DOMAIN CSV_COLUMNS |-> col(c)[i]]]

\* app.py:113  df.loc[len(df)] = row: the row is added at the end; a column
\* that is float64 stays float64 if the new value is an integer, which then
\* becomes a float; in every other case the values are kept as they are
IsFloat64(df, c) == \A i \in DOMAIN df : df[i][c].t \in {"float", "nan"}

SetRow(df, row) ==
    IF df = <<>> THEN <<row>>
    ELSE Append(df,
            [c \in DOMAIN row |->
                IF IsFloat64(df, c) /\ row[c].t = "int"
                THEN PyFloat(row[c].n)
                ELSE row[c]])

\* app.py:120: the header and one line per row of df
to_csv(df) ==
    <<CSV_COLUMNS_LINE>> \o
    [i \in DOMAIN df |-> [c \in DOMAIN df[i] |-> FormatCell(df[i][c])]]

(***************************************************************************)
(* The hosted model (genai.GenerativeModel(...).generate_content(...).text, *)
(* app.py:50-51, 56-57): it answers with some text or raises.  The answers *)
(* the model may give are an input of each action.                         *)
(***************************************************************************)
Unavailable == [ok |-> FALSE]
Answer(raw) == [ok |-> TRUE, text |-> raw]

\* one request to the hosted model and what came of it
Call(prompt, model, reply) == [prompt |-> prompt, model |-> model, reply |-> reply]

(***************************************************************************)
(* What one execution of the script did.                                   *)
(*   kind    "open", "level", "model", "edit", "generate", "feedback"      *)
(*   calls   the requests sent to the hosted model, in order               *)
(*   error   the uncaught exception that stopped the script, or "none"     *)
(*   warning st.warning was shown (app.py:105)                             *)
(*   fb      the value get_feedback returned, if it returned               *)
(*   row     the row assigned to df.loc[len(df)] (app.py:113), or <<>>     *)
(***************************************************************************)
Unset == [t |-> "unset"]

Ev(kind) ==
    [kind |-> kind, calls |-> <<>>, error |-> "none", warning |-> FALSE,
     fb |-> Unset, row |-> <<>>]

(***************************************************************************)
(* Pieces of the script.                                                   *)
(***************************************************************************)
\* variant: the button is never disabled
FeedbackNeverDisabled(p) == FALSE

\* app.py:103  disabled = not st.session_state.passage
FeedbackDisabled(p) == p = <<>>

\* the feedback button on the page after an execution that reached line 103
Rendered(p) == IF FeedbackDisabled(p) THEN "disabled" ELSE "enabled"

\* variant: the text is tested without strip()
EmptyReflectionUnstripped(text) == text = <<>>

\* app.py:104  not user_input.strip()
EmptyReflection(text) == Strip(text) = <<>>

\* variant: the answer is added to the passage already there
NewPassageAppended(old, raw) == old \o Strip(raw)

\* app.py:52, 85  the value stored in the session for the answer raw
NewPassage(old, raw) == Strip(raw)

\* variant: the memo table is keyed by the level alone
CacheKeyLevelOnly(lvl, mdl) == <<lvl>>

\* app.py:48  the key of the memo table: the arguments of generate_passage
CacheKey(lvl, mdl) == <<lvl, mdl>>

\* app.py:113-119  the row of the record
LogRow(date, lvl, mdl, text, fb) ==
    <<PyStr(isoformat(date)), PyStr(<<lvl>>), PyStr(<<mdl>>), PyStr(text),
      fb.d[<<"score">>]>>

(***************************************************************************)
(* The state once the page has been opened: the first execution of the     *)
(* script, with every widget at its default and no log file.               *)
(***************************************************************************)
Init ==
    /\ level = "shokyu"                      \* app.py:75  index=0
    /\ model_name = AVAILABLE_MODELS[1]      \* app.py:73  index=0
    /\ user_input = <<>>
    /\ passage = <<>>                        \* app.py:80-81
    /\ passageFor = <<>>
    /\ cache = <<>>
    /\ csv = <<>>
    /\ fbButton = Rendered(<<>>)
    /\ event = Ev("open")
    /\ history = <<>>
    /\ firstResult = <<>>
    /\ runs = 0

(***************************************************************************)
(* An execution with no button pressed: the script is run to its end, the  *)
(* log is read and shown, nothing is written.                              *)
(***************************************************************************)
\* variant: line 81 runs on every execution
RerunResetsPassage(kind) ==
    /\ runs < MaxRuns
    /\ runs' = runs + 1
    /\ passage' = <<>>
    /\ passageFor' = <<>>
    /\ fbButton' = Rendered(passage')
    /\ event' = Ev(kind)
    /\ UNCHANGED <<cache, csv, history, firstResult>>

Rerun(kind) ==
    /\ runs < MaxRuns
    /\ runs' = runs + 1
    /\ fbButton' = Rendered(passage)
    /\ event' = Ev(kind)
    /\ UNCHANGED <<passage, passageFor, cache, csv, history, firstResult>>

\* the level radio is changed (app.py:75)
SelectLevel ==
    \E l \in Levels \ {level} :
        /\ level' = l
        /\ Rerun("level")
        /\ UNCHANGED <<model_name, user_input>>

\* the model selectbox is changed (app.py:69-74)
SelectModel ==
    \E m \in Models \ {model_name} :
        /\ model_name' = m
        /\ Rerun("model")
        /\ UNCHANGED <<level, user_input>>

\* the reflection is edited (app.py:94); the text area is on the page only if
\* the last execution got that far
EditReflection(texts) ==
    \E t \in texts \ {user_input} :
        /\ fbButton # "absent"
        /\ user_input' = t
        /\ Rerun("edit")
        /\ UNCHANGED <<level, model_name>>

(***************************************************************************)
(* The generate button is pressed (app.py:83-85).                          *)
(***************************************************************************)
\* st.cache_data has a result for these arguments: no call is made
GenerateCached ==
    LET key == CacheKey(level, model_name)
    IN  /\ key \in DOMAIN cache
        /\ passage' = cache[key]
        /\ passageFor' = <<level, model_name>>
        /\ fbButton' = Rendered(passage')
        /\ event' = Ev("generate")
        /\ UNCHANGED <<cache, firstResult>>

\* variant: the failure is caught and the session passage is cleared
GenerateFailedClears ==
    /\ CacheKey(level, model_name) \notin DOMAIN cache
    /\ passage' = <<>>
    /\ passageFor' = <<>>
    /\ fbButton' = Rendered(passage')
    /\ event' = [Ev("generate") EXCEPT
                    !.calls = <<Call(LEVEL_PROMPT[level], model_name, Unavailable)>>,
                    !.error = "ModelUnavailable"]
    /\ UNCHANGED <<cache, firstResult>>

\* the call raises: the exception leaves generate_passage and the script,
\* the assignment of line 85 never happens, the page ends at the button
GenerateFailed ==
    /\ CacheKey(level, model_name) \notin DOMAIN cache
    /\ fbButton' = "absent"
    /\ event' = [Ev("generate") EXCEPT
                    !.calls = <<Call(LEVEL_PROMPT[level], model_name, Unavailable)>>,
                    !.error = "ModelUnavailable"]
    /\ UNCHANGED <<passage, passageFor, cache, firstResult>>

\* the call answers raw: the stripped text is memoised and stored
GenerateAnswered(raw) ==
    LET key == CacheKey(level, model_name)
        text == Strip(raw)
    IN  /\ key \notin DOMAIN cache
        /\ cache' = (key :> text) @@ cache
        /\ passage' = NewPassage(passage, raw)
        /\ passageFor' = <<level, model_name>>
        /\ fbButton' = Rendered(passage')
        /\ firstResult' = IF <<level, model_name>> \in DOMAIN firstResult
                          THEN firstResult
                          ELSE (<<level, model_name>> :> passage') @@ firstResult
        /\ event' = [Ev("generate") EXCEPT
                        !.calls = <<Call(LEVEL_PROMPT[level], model_name,
                                         Answer(raw))>>]

ClickGenerate(raws) ==
    /\ runs < MaxRuns
    /\ runs' = runs + 1
    /\ \/ GenerateCached
       \/ GenerateFailed
       \/ \E raw \in raws : GenerateAnswered(raw)
    /\ UNCHANGED <<level, model_name, user_input, csv, history>>

(***************************************************************************)
(* The feedback button is pressed (app.py:103-120).  It can be pressed     *)
(* only if the last execution rendered it enabled.  Lines 80-101 run       *)
(* first: the passage is kept and df is read from the file.                *)
(***************************************************************************)
\* app.py:104-105
FeedbackWarned ==
    /\ EmptyReflection(user_input)
    /\ event' = [Ev("feedback") EXCEPT !.warning = TRUE]
    /\ UNCHANGED <<csv, history>>

\* app.py:108 raises inside get_feedback
FeedbackFailed ==
    /\ ~EmptyReflection(user_input)
    /\ event' = [Ev("feedback") EXCEPT
                    !.calls = <<Call(FB_TEMPLATE(user_input), model_name,
                                     Unavailable)>>,
                    !.error = "ModelUnavailable"]
    /\ UNCHANGED <<csv, history>>

\* app.py:108-120 with the answer raw, on the date today
FeedbackAnswered(raw, today) ==
    LET fb  == get_feedback(raw)
        err == DisplayError(fb)
        df  == LoadLog(csv)
        row == LogRow(today, level, model_name, user_input, fb)
        ev  == [Ev("feedback") EXCEPT
                    !.calls = <<Call(FB_TEMPLATE(user_input), model_name,
                                     Answer(raw))>>,
                    !.fb = fb]
    IN  /\ ~EmptyReflection(user_input)
        /\ IF err # "none"
           THEN /\ event' = [ev EXCEPT !.error = err]
                /\ UNCHANGED <<csv, history>>
           ELSE /\ event' = [ev EXCEPT !.row = row]
                /\ csv' = to_csv(SetRow(df, row))
                /\ history' = Append(history,
                                 [passage |-> passage, text |-> user_input])

ClickFeedback(raws, dates) ==
    /\ runs < MaxRuns
    /\ fbButton = "enabled"
    /\ runs' = runs + 1
    /\ fbButton' = Rendered(passage)
    /\ \/ FeedbackWarned
       \/ FeedbackFailed
       \/ \E raw \in raws, today \in dates : FeedbackAnswered(raw, today)
    /\ UNCHANGED <<level, model_name, user_input, passage, passageFor, cache,
                   firstResult>>

(***************************************************************************)
(* Inputs.                                                                 *)
(***************************************************************************)
\* answers to a generation prompt
BlankStory == <<" ", "\n">>
StoryOne   == <<"\n", "mukashi", " ", "mukashi", "\n">>
StoryTwo   == <<"aru", " ", "hi", " ">>
Stories    == {BlankStory, StoryOne, StoryTwo}

\* reflections typed by the reader
Reflections ==
    { <<>>, <<" ", "\n">>, <<"omoshirokatta", " ", "desu">>, <<"NA">>, <<"7">> }

\* answers to a feedback prompt
Member(k, v) == <<Quote, k, Quote, ":", " ">> \o v
Str(w) == <<Quote, w, Quote>>
Feedback(score) ==
    <<"{">> \o Member("yokatta_ten", Str("A")) \o <<",", " ">>
        \o Member("kaizen_ten", Str("B")) \o <<",", " ">>
        \o Member("score", score) \o <<"}">>
WellFormed  == <<"\n">> \o Feedback(<<"8", "0">>) \o <<"\n">>
Prose       == <<"yoku", " ", "kakemashita">>
Fenced      == <<"fence-json", "\n">> \o Feedback(<<"8", "0">>) \o <<"\n", "fence">>
Truncated   == <<"{">> \o Member("yokatta_ten", Str("A")) \o <<",">>
BlankReply  == <<" ">>
NoScore     == <<"{">> \o Member("yokatta_ten", Str("A")) \o <<",">>
                   \o Member("kaizen_ten", Str("B")) \o <<"}">>
OnlyScore   == <<"{">> \o Member("score", <<"8", "0">>) \o <<"}">>
BareNumber  == <<"8", "0">>
InList      == <<"[">> \o Feedback(<<"8", "0">>) \o <<"]">>
TextScore   == Feedback(Str("A+"))
HugeScore   == Feedback(<<"1", "0", "0", "0">>)
MinusScore  == Feedback(<<"-", "5">>)
NullScore   == Feedback(<<"null">>)
Replies ==
    { WellFormed, Prose, Fenced, Truncated, BlankReply, NoScore, OnlyScore,
      BareNumber, InList, TextScore, HugeScore, MinusScore, NullScore }

NewYear == [year |-> 2025, month |-> 1, day |-> 5]
YearEnd == [year |-> 2025, month |-> 12, day |-> 31]

(***************************************************************************)
(* A session: every kind of story, reflection and failure, and one reply   *)
(* of each kind (well formed, not parseable, a field missing, a score that *)
(* is no number).                                                          *)
(***************************************************************************)
Next ==
    \/ SelectLevel
    \/ SelectModel
    \/ EditReflection(Reflections)
    \/ ClickGenerate(Stories)
    \/ ClickFeedback({WellFormed, Prose, NoScore, TextScore}, {NewYear})

Spec == Init /\ [][Next]_vars

(***************************************************************************)
(* A session in which the hosted model gives every reply of Replies, on    *)
(* either date, with one story and one reflection.                         *)
(***************************************************************************)
NextReplies ==
    \/ SelectLevel
    \/ SelectModel
    \/ EditReflection({<<>>, <<"omoshirokatta", " ", "desu">>})
    \/ ClickGenerate({StoryOne})
    \/ ClickFeedback(Replies, {NewYear, YearEnd})

SpecReplies == Init /\ [][NextReplies]_vars

(***************************************************************************)
(* Properties.                                                             *)
(***************************************************************************)
Rows(file) == IF file = <<>> THEN 0 ELSE Len(file) - 1
Last(seq) == seq[Len(seq)]
IsBlank(text) == \A i \in DOMAIN text : text[i] \in Whitespace
Selected == <<level, model_name>>

\* equal field for field: the same value, or the same number as int and float
Same(a, b) ==
    \/ a = b
    \/ a.t \in {"int", "float"} /\ b.t \in {"int", "float"} /\ a.n = b.n
SameRow(r, q) == \A c \in DOMAIN CSV_COLUMNS : Same(r[c], q[c])
\* the text of the number n in a cell, as an int64 or as a float64
NumberCells(n) == {FormatInt(n), FormatInt(n) \o <<".", "0">>}

\* C1: every row of the log was appended by a feedback submission made while
\* the passage was not empty and the reflection was not blank, and the
\* feedback handler never runs while the passage is empty.
C1_RowsComeFromValidFeedback ==
    /\ Rows(csv) = Len(history)
    /\ \A i \in DOMAIN history :
           history[i].passage # <<>> /\ ~IsBlank(history[i].text)
    /\ event.kind = "feedback" => passage # <<>>

C1_Witness ==
    /\ event.kind = "feedback"
    /\ event.row # <<>>
    /\ Rows(csv) = 2

\* C2: a feedback submission with an empty or white-space-only reflection shows
\* the warning, calls no model, appends no row and keeps the passage.
C2_BlankReflectionChangesNothing ==
    [][(event'.kind = "feedback" /\ IsBlank(user_input))
        => /\ event'.warning
           /\ event'.error = "none"
           /\ event'.calls = <<>>
           /\ csv' = csv
           /\ passage' = passage]_vars

C2_Witness ==
    /\ event.kind = "feedback"
    /\ event.warning
    /\ user_input = <<" ", "\n">>
    /\ passage # <<>>
    /\ Rows(csv) = 1

\* C3: after a successful submission the log loads as the rows loaded before,
\* unchanged and in order, followed by one row equal to the record appended.
C3_LoadAfterAppend ==
    [][event'.row # <<>>
        => LET before == LoadLog(csv)
               after  == LoadLog(csv')
           IN  /\ Len(after) = Len(before) + 1
               /\ \A i \in DOMAIN before : SameRow(after[i], before[i])
               /\ SameRow(Last(after), event'.row)]_vars

\* C4: a successful generate replaces the passage by the stripped text that
\* generate_passage returned for the selected level and model.
C4_GenerateReplacesPassage ==
    [][(event'.kind = "generate" /\ event'.error = "none")
        => passage' = IF event'.calls = <<>>
                      THEN firstResult[Selected]
                      ELSE Strip(event'.calls[1].reply.text)]_vars

C4_Witness ==
    /\ event.kind = "generate"
    /\ event.calls # <<>>
    /\ passage = Strip(StoryTwo)
    /\ history # <<>>
    /\ Last(history).passage = Strip(StoryOne)

\* C5: when the model call fails during generate or feedback, the passage and
\* the log stay as they were, and exactly one call was attempted.
C5_FailureKeepsState ==
    [][event'.error = "ModelUnavailable"
        => /\ passage' = passage
           /\ csv' = csv
           /\ Len(event'.calls) = 1
           /\ ~event'.calls[1].reply.ok]_vars

C5_Witness ==
    /\ event.kind = "generate"
    /\ event.error = "ModelUnavailable"
    /\ passage # <<>>
    /\ Rows(csv) = 1

\* the reply of the hosted model in a step that called it and got an answer
Answered(ev) == ev.calls # <<>> /\ ev.calls[1].reply.ok
ReplyText(ev) == ev.calls[1].reply.text

IsFallbackRecord(fb) ==
    /\ fb.t = "dict"
    /\ DOMAIN fb.d = {<<"yokatta_ten">>, <<"kaizen_ten">>, <<"score">>}
    /\ fb.d[<<"yokatta_ten">>] = PyStr(<<"kaiseki_shippai">>)
    /\ fb.d[<<"kaizen_ten">>] = PyStr(<<"keishiki_wo_kakunin">>)
    /\ fb.d[<<"score">>] = PyInt(0)

\* C6: a reply that is not parseable makes the parser return the fixed fallback
\* record, and the submission ends normally with one row of score 0 appended.
C6_UnparseableReplyFallsBack ==
    [][(event'.kind = "feedback" /\ Answered(event')
            /\ ReplyText(event') \in {Prose, Fenced, Truncated, BlankReply})
        => /\ IsFallbackRecord(event'.fb)
           /\ event'.error = "none"
           /\ ~event'.warning
           /\ Rows(csv') = Rows(csv) + 1
           /\ event'.row[5] = PyInt(0)
           /\ Last(csv')[5] \in NumberCells(0)]_vars

C6_Witness ==
    /\ event.kind = "feedback"
    /\ Answered(event)
    /\ ReplyText(event) = Fenced
    /\ event.row # <<>>
    /\ Rows(csv) = 2

\* C7: only a generate action changes the session passage.
C7_OnlyGenerateChangesPassage ==
    [][passage' # passage => event'.kind = "generate"]_vars

C7_Witness ==
    /\ event.kind = "generate"
    /\ passage = <<>>
    /\ history # <<>>

\* C8: whenever a record is appended, the passage in the session was generated
\* for the level and the model that are selected and written to the record.
C8_RecordMatchesPassage ==
    event.row # <<>> => passageFor = Selected

\* C9: once a generate has succeeded for a (level, model), a later generate for
\* the same pair calls no model and stores the text of the first result; a
\* generate for a pair without a result makes exactly one call.
C9_GenerateIsMemoised ==
    [][event'.kind = "generate"
        => IF Selected \in DOMAIN firstResult
           THEN event'.calls = <<>> /\ passage' = firstResult[Selected]
           ELSE Len(event'.calls) = 1]_vars

C9_Witness ==
    /\ event.kind = "generate"
    /\ event.calls = <<>>
    /\ passage = Strip(StoryOne)
    /\ \E k \in DOMAIN firstResult : firstResult[k] = Strip(StoryTwo)

\* the cell texts that hold the score of the reply raw
C10_ScoreCells(raw) ==
    CASE raw = HugeScore  -> NumberCells(1000)
      [] raw = MinusScore -> NumberCells(0 - 5)
      [] raw = TextScore  -> {<<"A+">>}
      [] raw = NullScore  -> {<<>>}
      [] raw = WellFormed -> NumberCells(80)
      [] OTHER            -> NumberCells(0)

\* C10: a row is appended only if the parser's result has all three fields; a
\* reply that is JSON but no object with the fields stops the submission with
\* an error, without a fallback and without a write; a score that is returned
\* is written as it is, whatever its range or type.
C10_NoPartialRecovery ==
    [][(event'.kind = "feedback" /\ Answered(event'))
        => /\ ReplyText(event') \in {NoScore, OnlyScore, BareNumber, InList}
                => /\ event'.error \in {"KeyError", "TypeError"}
                   /\ ~IsFallbackRecord(event'.fb)
                   /\ event'.row = <<>>
                   /\ csv' = csv
           /\ csv' # csv
                => /\ Rows(csv') = Rows(csv) + 1
                   /\ event'.fb.t = "dict"
                   /\ {<<"yokatta_ten">>, <<"kaizen_ten">>, <<"score">>}
                          \subseteq DOMAIN event'.fb.d
                   /\ event'.row[5] = event'.fb.d[<<"score">>]
                   /\ Last(csv')[5] \in C10_ScoreCells(ReplyText(event'))]_vars

C10_Witness ==
    /\ event.kind = "feedback"
    /\ Answered(event)
    /\ ReplyText(event) = NoScore
    /\ event.error = "KeyError"
    /\ Rows(csv) = 2
    /\ Last(csv)[5] = <<"1", "0", "0", "0", ".", "0">>

====
